---- MODULE Spec2Model ----
(***************************************************************************)
(* Model of openevosim/graph_builder.py: EcosystemGraphBuilder.            *)
(*   load_data walks a directory tree, _process_contributors_file turns    *)
(*   one contributor file into nodes and edges of the bipartite graph,     *)
(*   get_developer_network projects it to a weighted developer graph.      *)
(***************************************************************************)
EXTENDS Integers, Sequences, FiniteSets, TLC

\* ------------------------------------------------------------------ bounds
\* longest directory path given to a direct call of _process_contributors_file
MaxParts == 4
\* most time periods in one file, most entries in one file
MaxPeriods == 2
MaxEntries == 3
\* most recognized files a builder finds in the trees it walks
MaxFiles == 2

\* ------------------------------------------------------- values of the code
\* Python's None (json null); not a member of any id alphabet below
None == "<None>"
Sentinel == "unknown/unknown"
CONTRIB == "contributors_detail.json"
BUSFACTOR == "bus_factor_detail.json"
Recognized == <<CONTRIB, BUSFACTOR>>

SeqsUpTo(S, n) == UNION {[1..k -> S] : k \in 0..n}

RECURSIVE Perms(_)
Perms(S) ==
  IF S = {} THEN {<<>>}
  ELSE UNION {{<<x>> \o p : p \in Perms(S \ {x})} : x \in S}

Range(s) == {s[i] : i \in 1..Len(s)}

\* one enumeration of a set
RECURSIVE SetToSeq(_)
SetToSeq(S) ==
  IF S = {} THEN <<>>
  ELSE LET x == CHOOSE y \in S : TRUE IN <<x>> \o SetToSeq(S \ {x})

\* ------------------------------------------------- path -> repository name
\* parts is a tuple; Python indexes it from 0 and wraps negative indices
PyIndexOK(parts, i) == i >= -Len(parts) /\ i < Len(parts)
PyAt(parts, i) == IF i >= 0 THEN parts[i + 1] ELSE parts[Len(parts) + i + 1]
\* parts.index(x): 0-based position of the first occurrence
PyIndexOf(parts, x) == (CHOOSE i \in 1..Len(parts) :
                          parts[i] = x /\ \A j \in 1..(i - 1) : parts[j] # x) - 1
FmtRepo(a, b) == a \o "/" \o b

NameOK(n) == [err |-> "none", name |-> n]
NameErr(e) == [err |-> e, name |-> ""]

\* f"{parts[i]}/{parts[j]}", IndexError when an index is out of range
FmtAt(parts, i, j) ==
  IF PyIndexOK(parts, i) /\ PyIndexOK(parts, j)
  THEN NameOK(FmtRepo(PyAt(parts, i), PyAt(parts, j)))
  ELSE NameErr("IndexError")

\* variant: the gitee branch tested before the github branch
InferRepoGiteeFirst(parts) ==
  IF "gitee" \in Range(parts)
  THEN LET idx == PyIndexOf(parts, "gitee") IN
       IF idx + 2 < Len(parts) THEN FmtAt(parts, idx + 1, idx + 2)
       ELSE NameOK(Sentinel)
  ELSE IF "github" \in Range(parts)
  THEN LET idx == PyIndexOf(parts, "github") IN
       IF idx + 2 < Len(parts) THEN FmtAt(parts, idx + 1, idx + 2)
       ELSE NameOK(Sentinel)
  ELSE IF "developers" \in Range(parts)
  THEN LET dev_idx == PyIndexOf(parts, "developers") IN
       FmtAt(parts, dev_idx - 2, dev_idx - 1)
  ELSE FmtAt(parts, -2, -1)

InferRepo(parts) ==
  IF "github" \in Range(parts)
  THEN LET idx == PyIndexOf(parts, "github") IN
       IF idx + 2 < Len(parts) THEN FmtAt(parts, idx + 1, idx + 2)
       ELSE NameOK(Sentinel)
  ELSE IF "gitee" \in Range(parts)
  THEN LET idx == PyIndexOf(parts, "gitee") IN
       IF idx + 2 < Len(parts) THEN FmtAt(parts, idx + 1, idx + 2)
       ELSE NameOK(Sentinel)
  ELSE IF "developers" \in Range(parts)
  THEN LET dev_idx == PyIndexOf(parts, "developers") IN
       FmtAt(parts, dev_idx - 2, dev_idx - 1)
  ELSE FmtAt(parts, -2, -1)

\* ------------------------------------------------------------ file content
\* One contributor entry of a period:
\*   kind "str"   a bare id                     "dev1"
\*   kind "list"  a pair [id, score]            ["dev1", 10]
\*   kind "empty" an empty list                 []
\*   kind "null"  json null
\*   kind "dict"  a json object (unhashable)    {}
StrEntry(u) == [kind |-> "str", id |-> u, score |-> 0]
PairEntry(u, s) == [kind |-> "list", id |-> u, score |-> s]
EmptyEntry == [kind |-> "empty", id |-> "", score |-> 0]
NullEntry == [kind |-> "null", id |-> None, score |-> 0]
DictEntry == [kind |-> "dict", id |-> "", score |-> 0]

\* One period value: a json array of entries, or a json number
ListValue(items) == [kind |-> "list", items |-> items]
NumberValue == [kind |-> "number", items |-> <<>>]

\* A file: what open() and json.load make of it
\*   kind "missing"      open raises OSError
\*   kind "undecodable"  json.load raises (decode error, not json)
\*   kind "array"        json.load returns a list, not a dict
\*   kind "dict"         json.load returns the mapping period -> value;
\*                       periods lists its values in the dict's order
DictFile(ps) == [kind |-> "dict", periods |-> ps]
BadFile(k) == [kind |-> k, periods |-> <<>>]

ParseOK(c) == [err |-> "none", contributors |-> c]
ParseErr(e) == [err |-> e, contributors |-> {}]

\* the inner loop, lines 77-82: for item in user_list
RECURSIVE AddItems(_, _)
AddItems(items, acc) ==
  IF items = <<>> THEN ParseOK(acc)
  ELSE LET item == Head(items) IN
       IF item.kind = "empty" THEN ParseErr("IndexError")
       ELSE IF item.kind = "dict" THEN ParseErr("TypeError")
       ELSE LET user == IF item.kind = "list" THEN item.id      \* item[0]
                        ELSE IF item.kind = "null" THEN None
                        ELSE item.id
            IN AddItems(Tail(items), acc \cup {user})

\* the outer loop, lines 74-82: for period, user_list in data.items()
\* variant: contributors = set() inside the period loop
RECURSIVE CollectLastPeriod(_, _)
CollectLastPeriod(periods, acc) ==
  IF periods = <<>> THEN ParseOK(acc)
  ELSE LET user_list == Head(periods) IN
       IF user_list.kind # "list" THEN ParseErr("TypeError")
       ELSE LET r == AddItems(user_list.items, {}) IN
            IF r.err # "none" THEN r
            ELSE CollectLastPeriod(Tail(periods), r.contributors)

RECURSIVE Collect(_, _)
Collect(periods, acc) ==
  IF periods = <<>> THEN ParseOK(acc)
  ELSE LET user_list == Head(periods) IN
       IF user_list.kind # "list" THEN ParseErr("TypeError")
       ELSE LET r == AddItems(user_list.items, acc) IN
            IF r.err # "none" THEN r
            ELSE Collect(Tail(periods), r.contributors)

\* lines 67-82: open, json.load, aggregate all periods
ReadContributors(file) ==
  IF file.kind = "missing" THEN ParseErr("OSError")
  ELSE IF file.kind = "undecodable" THEN ParseErr("ValueError")
  ELSE IF file.kind = "array" THEN ParseErr("AttributeError")
  ELSE Collect(file.periods, {})

\* ------------------------------------------------------- the graph library
\* eg.Graph(): node maps a node id to its "type" attribute ("" when the node
\* has none), adj maps a node id to the set of its neighbours
EmptyGraph == [node |-> <<>>, adj |-> <<>>]
Nodes(G) == DOMAIN G.node
has_node(G, n) == n \in Nodes(G)
neighbors(G, n) == G.adj[n]
has_edge(G, u, v) == u \in Nodes(G) /\ v \in G.adj[u]
\* the edges as unordered pairs ({u} is a self-loop)
Edges(G) == UNION {{{u, v} : v \in G.adj[u]} : u \in Nodes(G)}

\* networkx refuses None as a node; easygraph takes any hashable value
RejectsNode(library, n) == library = "networkx" /\ n = None

\* variant: an existing node gets a new, empty adjacency
add_node_reset(G, n, t) ==
  [node |-> [m \in Nodes(G) \cup {n} |-> IF m = n THEN t ELSE G.node[m]],
   adj  |-> [m \in Nodes(G) \cup {n} |-> IF m \in Nodes(G) \ {n} THEN G.adj[m] ELSE {}]]

\* G.add_node(n, type=t): a new node gets an empty adjacency, an existing
\* one only has its attribute overwritten
add_node(G, n, t) ==
  [node |-> [m \in Nodes(G) \cup {n} |-> IF m = n THEN t ELSE G.node[m]],
   adj  |-> [m \in Nodes(G) \cup {n} |-> IF m \in Nodes(G) THEN G.adj[m] ELSE {}]]

\* variant: only adj[u][v] is set
add_edge_oneway(G, u, v) ==
  [node |-> G.node,
   adj  |-> [m \in Nodes(G) |-> IF m = u THEN G.adj[m] \cup {v} ELSE G.adj[m]]]

\* G.add_edge(u, v) between two nodes that exist: adj[u][v] and adj[v][u]
add_edge(G, u, v) ==
  [node |-> G.node,
   adj  |-> [m \in Nodes(G) |->
               IF m = u /\ m = v THEN G.adj[m] \cup {u}
               ELSE IF m = u THEN G.adj[m] \cup {v}
               ELSE IF m = v THEN G.adj[m] \cup {u}
               ELSE G.adj[m]]]

\* ------------------------------------------- _process_contributors_file
\* the fields of an EcosystemGraphBuilder
Builder(G, devs, rs) == [graph |-> G, developers |-> devs, repos |-> rs]
Outcome(b, e, n) == [b |-> b, err |-> e, repo |-> n]

\* variant: the repository is tracked but no node is added for it
AddRepoTrackOnly(b, repo_name) ==
  Builder(b.graph, b.developers, b.repos \cup {repo_name})

\* lines 85-86: the repository node
AddRepo(b, repo_name) ==
  Builder(add_node(b.graph, repo_name, "repo"), b.developers, b.repos \cup {repo_name})

\* lines 89-93, one pass of the loop body
AddUser(b, user, repo_name) ==
  Builder(add_edge(add_node(b.graph, user, "developer"), user, repo_name),
          b.developers \cup {user}, b.repos)

\* lines 88-93: for user in contributors, in the set's iteration order;
\* add_node raising leaves what the earlier passes did
RECURSIVE AddUsers(_, _, _, _)
AddUsers(b, order, repo_name, library) ==
  IF order = <<>> THEN Outcome(b, "none", repo_name)
  ELSE IF RejectsNode(library, Head(order)) THEN Outcome(b, "ValueError", repo_name)
  ELSE AddUsers(AddUser(b, Head(order), repo_name), Tail(order), repo_name, library)

\* the whole handler, lines 43-96; order is the iteration order of the
\* contributors set.  Every exception is caught and logged (lines 95-96).
ProcessFile(b, parts, file, order, library) ==
  LET inferred == InferRepo(parts) IN
  IF inferred.err # "none" THEN Outcome(b, inferred.err, "")
  ELSE LET parsed == ReadContributors(file) IN
       IF parsed.err # "none" THEN Outcome(b, parsed.err, inferred.name)
       ELSE AddUsers(AddRepo(b, inferred.name), order, inferred.name, library)

\* the iteration orders a file's contributors set can have
Orders(file) == Perms(ReadContributors(file).contributors)

\* -------------------------------------------------- get_developer_network
\* dev_graph: node as above, adj maps a node to the function neighbour -> weight
WNodes(D) == DOMAIN D.node
WNbrs(D, u) == DOMAIN D.adj[u]
w_has_edge(D, u, v) == u \in WNodes(D) /\ v \in WNbrs(D, u)

w_add_node(D, n, t) ==
  [node |-> [m \in WNodes(D) \cup {n} |-> IF m = n THEN t ELSE D.node[m]],
   adj  |-> [m \in WNodes(D) \cup {n} |-> IF m \in WNodes(D) THEN D.adj[m] ELSE <<>>]]

\* adj[u][v] = w
SetWeight(D, u, v, w) ==
  [node |-> D.node,
   adj  |-> [m \in WNodes(D) |->
               IF m = u THEN [x \in WNbrs(D, u) \cup {v} |-> IF x = v THEN w ELSE D.adj[u][x]]
               ELSE D.adj[m]]]

\* add_edge(u, v, weight=1), line 126: endpoints that are not nodes yet are
\* created without attributes; both directions hold the one attribute dict
w_add_edge(D, u, v) ==
  LET D1 == IF u \in WNodes(D) THEN D ELSE w_add_node(D, u, "")
      D2 == IF v \in WNodes(D1) THEN D1 ELSE w_add_node(D1, v, "")
  IN SetWeight(SetWeight(D2, u, v, 1), v, u, 1)

\* variant: [u][v] and [v][u] hold separate dicts
IncrWeightOneWay(D, u, v) == SetWeight(D, u, v, D.adj[u][v] + 1)

\* dev_graph[u][v]['weight'] += 1, line 124: the dict is shared by [u][v] and [v][u]
IncrWeight(D, u, v) ==
  LET w == D.adj[u][v] + 1 IN SetWeight(SetWeight(D, u, v, w), v, u, w)

\* variant: the edge is always added with weight 1
ConnectNoCount(D, u, v) == w_add_edge(D, u, v)

\* lines 122-126 for one pair
Connect(D, u, v) ==
  IF w_has_edge(D, u, v) THEN IncrWeight(D, u, v) ELSE w_add_edge(D, u, v)

\* lines 121-126: for j in range(i + 1, len(neighbors)), u = neighbors[i]
RECURSIVE ConnectFrom(_, _, _)
ConnectFrom(D, u, rest) ==
  IF rest = <<>> THEN D
  ELSE ConnectFrom(Connect(D, u, Head(rest)), u, Tail(rest))

\* lines 120-126: for i in range(len(neighbors))
RECURSIVE Clique(_, _)
Clique(D, nbrs) ==
  IF nbrs = <<>> THEN D
  ELSE Clique(ConnectFrom(D, Head(nbrs), Tail(nbrs)), Tail(nbrs))

\* the elements of S in the order they have in ord
ListOf(S, ord) == SelectSeq(ord, LAMBDA x : x \in S)

\* lines 115-126: for repo in self.repos, in the order rs
RECURSIVE ProjectRepos(_, _, _, _)
ProjectRepos(D, rs, G, ord) ==
  IF rs = <<>> THEN D
  ELSE LET repo == Head(rs) IN
       IF ~ has_node(G, repo) THEN ProjectRepos(D, Tail(rs), G, ord)
       ELSE ProjectRepos(Clique(D, ListOf(neighbors(G, repo), ord)), Tail(rs), G, ord)

\* variant: nodes only come from add_edge
DevNodesLazy(devs) == [node |-> <<>>, adj |-> <<>>]

\* lines 110-112: every tracked developer becomes a node
DevNodes(devs) ==
  [node |-> [d \in devs |-> "developer"], adj |-> [d \in devs |-> <<>>]]

\* the whole method; ord fixes the iteration order of self.repos and of
\* each neighbour list
Project(b, ord) ==
  ProjectRepos(DevNodes(b.developers), ListOf(b.repos, ord), b.graph, ord)

\* ------------------------------------------------------------------ inputs
\* developer logins of the input files; "data/a" is also the repository name
\* inferred for the directory data/a
DevIds == {"x", "y", "data/a"}
TreeEntries == {StrEntry("x"), StrEntry("data/a"), PairEntry("y", 10), NullEntry}
\* one list for each set of at most MaxEntries entries, and a number
TreeValues == {ListValue(SetToSeq(S)) :
                 S \in {T \in SUBSET TreeEntries : Cardinality(T) <= MaxEntries}}
              \cup {NumberValue}
BadFiles == {BadFile("missing"), BadFile("undecodable"), BadFile("array")}
\* the files of the directory tree: one period each
TreeFiles == BadFiles \cup {DictFile(ps) : ps \in SeqsUpTo(TreeValues, 1)}

\* the directories that can exist under the roots, as Path(root).parts
Roots == {<<"data">>}
Tree == {<<"data">>, <<"data", "github">>, <<"data", "a">>}
Children(d) == {q \in Tree : Len(q) = Len(d) + 1 /\ SubSeq(q, 1, Len(d)) = d}

\* iteration orders of a set: the rotations of one enumeration and of its reverse
Reverse(s) == [i \in 1..Len(s) |-> s[Len(s) + 1 - i]]
Rotate(s, k) == [i \in 1..Len(s) |-> s[((i + k - 1) % Len(s)) + 1]]
IterOrders(S) ==
  IF S = {} THEN {<<>>}
  ELSE LET c == SetToSeq(S) IN
       {Rotate(c, k) : k \in 0..(Len(c) - 1)} \cup {Rotate(Reverse(c), k) : k \in 0..(Len(c) - 1)}

\* ------------------------------------------------------------------- state
VARIABLES
  lib,         \* the graph library the import at lines 4-7 picked
  data_dir,    \* self.data_dir, as path parts
  graph,       \* self.graph
  developers,  \* self.developers
  repos,       \* self.repos
  pc,          \* "new" before load_data, "walk" inside its loop, "idle" after it,
               \* "projected" when get_developer_network has just returned dev_graph
  stack,       \* directories os.walk has still to yield, next first
  cur,         \* the directory os.walk yielded last
  pending,     \* recognized file names of cur that load_data has still to process
  loaded,      \* load_data has been called
  nfiles,      \* recognized files os.walk has listed so far
  dev_graph,   \* the graph the last get_developer_network returned
  last,        \* what the handler computed for the file it handled last, whether
               \* that file was well-formed, and whether it repeated the record
               \* of the file handled before it
  arg,         \* the (dir_path, file) of a direct call of _process_contributors_file
  twin         \* a second builder loading the same directory tree: the files its
               \* walk and the walk of this builder have still to handle, and
               \* its fields

vars == <<lib, data_dir, graph, developers, repos, pc, stack, cur, pending,
          loaded, nfiles, dev_graph, last, arg, twin>>

Self == Builder(graph, developers, repos)
EmptyW == [node |-> <<>>, adj |-> <<>>]
NoFile == [err |-> "none", repo |-> "", contributors |-> {}, wf |-> FALSE, again |-> FALSE]
NoArg == [parts |-> <<>>, file |-> BadFile("missing")]
NoTwin == [first |-> <<>>, second |-> <<>>, b |-> Builder(EmptyGraph, {}, {})]

\* __init__, lines 17-21
Init ==
  /\ lib \in {"easygraph", "networkx"}
  /\ data_dir \in Roots
  /\ graph = EmptyGraph
  /\ developers = {}
  /\ repos = {}
  /\ pc = "new"
  /\ stack = <<>>
  /\ cur = <<>>
  /\ pending = <<>>
  /\ loaded = FALSE
  /\ nfiles = 0
  /\ dev_graph = EmptyW
  /\ last = NoFile
  /\ arg = NoArg
  /\ twin = NoTwin

\* load_data is called, once: os.walk starts at data_dir (line 29)
LoadData ==
  /\ pc \in {"new", "projected"}
  /\ ~ loaded
  /\ pc' = "walk"
  /\ loaded' = TRUE
  /\ stack' = <<data_dir>>
  /\ cur' = <<>>
  /\ pending' = <<>>
  /\ UNCHANGED <<lib, data_dir, graph, developers, repos, nfiles, dev_graph, last, arg, twin>>

\* os.walk yields the next directory with the files and sub-directories it
\* lists there; lines 30 and 33 pick the recognized names
WalkNext ==
  /\ pc = "walk"
  /\ pending = <<>>
  /\ stack # <<>>
  /\ \E files \in SUBSET {CONTRIB, BUSFACTOR} :
     \E dirs \in SUBSET Children(Head(stack)) :
     \E sub \in Perms(dirs) :
       /\ nfiles + Cardinality(files) <= MaxFiles
       /\ nfiles' = nfiles + Cardinality(files)
       /\ cur' = Head(stack)
       /\ pending' = SelectSeq(Recognized, LAMBDA f : f \in files)
       /\ stack' = sub \o Tail(stack)
  /\ UNCHANGED <<lib, data_dir, graph, developers, repos, pc, loaded, dev_graph, last, arg, twin>>

\* A file is well-formed when it is a mapping of periods to lists of bare ids
\* and [id, score] pairs (spec, section 6); Members is its developer set
WellFormed(file) ==
  /\ file.kind = "dict"
  /\ \A i \in 1..Len(file.periods) :
       /\ file.periods[i].kind = "list"
       /\ \A j \in 1..Len(file.periods[i].items) :
            /\ file.periods[i].items[j].kind \in {"str", "list"}
            /\ file.periods[i].items[j].id # None
Members(file) ==
  UNION {{file.periods[i].items[j].id : j \in 1..Len(file.periods[i].items)} :
           i \in 1..Len(file.periods)}

\* what the handler leaves behind for one file of directory parts
Handle(parts, file, order) ==
  LET out == ProcessFile(Self, parts, file, order, lib)
      parsed == ReadContributors(file)
  IN /\ graph' = out.b.graph
     /\ developers' = out.b.developers
     /\ repos' = out.b.repos
     /\ last' = [err |-> out.err, repo |-> out.repo,
                 contributors |-> IF InferRepo(parts).err = "none"
                                  THEN parsed.contributors ELSE {},
                 wf |-> WellFormed(file),
                 again |-> /\ out.err = "none" /\ last.err = "none"
                           /\ out.repo = last.repo /\ last.repo \in repos
                           /\ parsed.contributors = last.contributors]

\* lines 30-34: _process_contributors_file on the next recognized file of cur
ProcessNext ==
  /\ pc = "walk"
  /\ pending # <<>>
  /\ \E file \in TreeFiles : \E order \in Orders(file) : Handle(cur, file, order)
  /\ pending' = Tail(pending)
  /\ UNCHANGED <<lib, data_dir, pc, stack, cur, loaded, nfiles, dev_graph, arg, twin>>

\* os.walk is exhausted and load_data returns (line 36)
Finish ==
  /\ pc = "walk"
  /\ pending = <<>>
  /\ stack = <<>>
  /\ pc' = "idle"
  /\ UNCHANGED <<lib, data_dir, graph, developers, repos, stack, cur, pending,
                 loaded, nfiles, dev_graph, last, arg, twin>>

\* get_developer_network, lines 101-128
GetDeveloperNetwork ==
  /\ pc \in {"new", "idle", "projected"}
  /\ \E ord \in IterOrders(Nodes(graph) \cup repos) : dev_graph' = Project(Self, ord)
  /\ pc' = "projected"
  /\ UNCHANGED <<lib, data_dir, graph, developers, repos, stack, cur, pending,
                 loaded, nfiles, last, arg, twin>>

Next == LoadData \/ WalkNext \/ ProcessNext \/ Finish \/ GetDeveloperNetwork

Spec == Init /\ [][Next]_vars

\* ------------------------------------------- the handler called directly
\* _process_contributors_file(dir_path, filename) on a new builder, for every
\* short directory path and every small file
Segments == {"github", "gitee", "developers", "a", "b"}
AllPaths == SeqsUpTo(Segments, MaxParts)
Entries == {StrEntry("x"), StrEntry("y"), PairEntry("y", 10)}
\* the mappings of at most p periods with at most n entries in all
RECURSIVE PeriodSeqs(_, _)
PeriodSeqs(n, p) ==
  IF p = 0 THEN {<<>>}
  ELSE {<<>>} \cup
       UNION {{<<ListValue(items)>> \o rest : rest \in PeriodSeqs(n - Len(items), p - 1)} :
                items \in SeqsUpTo(Entries, n)}
\* period values that are not lists of ids and pairs
OddValues == {NumberValue} \cup
             {ListValue(<<e>>) : e \in {NullEntry, EmptyEntry, DictEntry}} \cup
             {ListValue(<<StrEntry("x"), e>>) : e \in {NullEntry, EmptyEntry, DictEntry}}
AllFiles == BadFiles \cup {DictFile(ps) : ps \in PeriodSeqs(MaxEntries, MaxPeriods)} \cup
            {DictFile(<<v>>) : v \in OddValues} \cup
            {DictFile(<<ListValue(<<PairEntry("y", 10)>>), v>>) : v \in OddValues}
PlainFiles == {DictFile(<<ListValue(<<StrEntry("x")>>)>>),
               DictFile(<<ListValue(<<PairEntry("y", 10), StrEntry("x")>>)>>),
               BadFile("undecodable")}
PlainPaths == {<<"data", "github", "a", "b">>}
CallInputs == {[parts |-> p, file |-> f] : p \in AllPaths, f \in PlainFiles} \cup
              {[parts |-> p, file |-> f] : p \in PlainPaths, f \in AllFiles}

InitCall ==
  /\ lib \in {"easygraph", "networkx"}
  /\ data_dir \in Roots
  /\ graph = EmptyGraph
  /\ developers = {}
  /\ repos = {}
  /\ pc = "call"
  /\ stack = <<>>
  /\ cur = <<>>
  /\ pending = <<>>
  /\ loaded = FALSE
  /\ nfiles = 0
  /\ dev_graph = EmptyW
  /\ last = NoFile
  /\ arg \in CallInputs
  /\ twin = NoTwin

DirectCall ==
  /\ pc = "call"
  /\ \E order \in Orders(arg.file) : Handle(arg.parts, arg.file, order)
  /\ pc' = "called"
  /\ UNCHANGED <<lib, data_dir, stack, cur, pending, loaded, nfiles, dev_graph, arg, twin>>

SpecCall == InitCall /\ [][DirectCall]_vars

\* ------------------------------------- two builders loading the same tree
\* the contents a recognized file of the tree can have here, each with the
\* order in which the handler iterates its contributors set
OrderLists == {<<StrEntry("x")>>, <<StrEntry("data/a")>>,
               <<StrEntry("x"), PairEntry("y", 10)>>, <<StrEntry("x"), NullEntry>>}
OrderFiles == {BadFile("undecodable")} \cup {DictFile(<<ListValue(l)>>) : l \in OrderLists}
Contents == UNION {{[file |-> f, order |-> o] : o \in Orders(f)} : f \in OrderFiles}
\* a listing gives a content to at most MaxFiles (directory, recognized name) slots
Slots == Tree \X Range(Recognized)
Listings == UNION {[sl -> Contents] : sl \in {T \in SUBSET Slots : Cardinality(T) <= MaxFiles}}

\* lines 30-34: the recognized files of directory d, contributors_detail first
FilesIn(d, listing) ==
  LET names == SelectSeq(Recognized, LAMBDA n : <<d, n>> \in DOMAIN listing)
  IN [i \in 1..Len(names) |-> [parts |-> d, file |-> listing[<<d, names[i]>>].file,
                               order |-> listing[<<d, names[i]>>].order]]

\* line 29: the sequences in which os.walk, top-down from the directories of
\* st, can hand the files of the listing to the handler; the sub-directories
\* of a directory come in any order
RECURSIVE WalkSeqs(_, _)
WalkSeqs(st, listing) ==
  IF st = <<>> THEN {<<>>}
  ELSE UNION {{FilesIn(Head(st), listing) \o rest : rest \in WalkSeqs(sub \o Tail(st), listing)} :
                sub \in Perms(Children(Head(st)))}

\* two new builders on the same data_dir, each inside load_data
InitOrder ==
  /\ lib \in {"easygraph", "networkx"}
  /\ data_dir \in Roots
  /\ graph = EmptyGraph
  /\ developers = {}
  /\ repos = {}
  /\ pc = "order"
  /\ stack = <<>>
  /\ cur = <<>>
  /\ pending = <<>>
  /\ loaded = TRUE
  /\ nfiles = 0
  /\ dev_graph = EmptyW
  /\ last = NoFile
  /\ arg = NoArg
  /\ \E listing \in Listings :
     \E s1 \in WalkSeqs(<<data_dir>>, listing) : \E s2 \in WalkSeqs(<<data_dir>>, listing) :
       twin = [first |-> s1, second |-> s2, b |-> Builder(EmptyGraph, {}, {})]

\* this builder handles the next file of its walk
FirstLoad ==
  /\ pc = "order"
  /\ twin.first # <<>>
  /\ Handle(Head(twin.first).parts, Head(twin.first).file, Head(twin.first).order)
  /\ twin' = [twin EXCEPT !.first = Tail(twin.first)]
  /\ UNCHANGED <<lib, data_dir, pc, stack, cur, pending, loaded, nfiles, dev_graph, arg>>

\* once it has returned, the second builder handles the next file of its walk
SecondLoad ==
  /\ pc = "order"
  /\ twin.first = <<>>
  /\ twin.second # <<>>
  /\ twin' = [twin EXCEPT !.second = Tail(twin.second),
                          !.b = ProcessFile(twin.b, Head(twin.second).parts, Head(twin.second).file,
                                            Head(twin.second).order, lib).b]
  /\ UNCHANGED <<lib, data_dir, graph, developers, repos, pc, stack, cur, pending,
                 loaded, nfiles, dev_graph, last, arg>>

SpecOrder == InitOrder /\ [][FirstLoad \/ SecondLoad]_vars

\* ------------------------------------------------------------- properties
\* the repositories that have both u and v as neighbours in the bipartite graph
Shared(u, v) == {r \in repos : has_node(graph, r) /\ u \in neighbors(graph, r)
                                                  /\ v \in neighbors(graph, r)}

\* C1: in the graph get_developer_network returns, two distinct developers
\* are joined exactly when some repository has both as bipartite neighbours,
\* and the weight of the edge is the number of such repositories.
C1_ProjectionCountsSharedRepos ==
  pc = "projected" =>
    \A u \in developers : \A v \in developers \ {u} :
      /\ w_has_edge(dev_graph, u, v) <=> Shared(u, v) # {}
      /\ w_has_edge(dev_graph, u, v) => dev_graph.adj[u][v] = Cardinality(Shared(u, v))

\* two repositories share two developers, a third developer is in one of them
C1_Witness ==
  /\ pc = "projected"
  /\ \E u \in developers : \E v \in developers \ {u} : \E t \in developers \ {u, v} :
       /\ Cardinality(Shared(u, v)) = 2 /\ dev_graph.adj[u][v] = 2
       /\ Cardinality(Shared(u, t)) = 1 /\ dev_graph.adj[u][t] = 1

\* C2: the returned graph has the same weight in both directions of every
\* edge and no node is its own neighbour.
C2_SymmetricNoSelfLoop ==
  pc = "projected" =>
    \A u \in WNodes(dev_graph) : \A v \in WNbrs(dev_graph, u) :
      /\ u # v
      /\ w_has_edge(dev_graph, v, u)
      /\ dev_graph.adj[v][u] = dev_graph.adj[u][v]

C2_Witness ==
  /\ pc = "projected"
  /\ \E u \in WNodes(dev_graph) : \E v \in WNbrs(dev_graph, u) : dev_graph.adj[u][v] = 2
  /\ \E r \in Nodes(graph) : r \in neighbors(graph, r)

\* C3: handling a file whose repository id and contributor set are those of
\* the file handled just before it, both without error, changes neither the
\* nodes, nor the edges, nor the tracked repos and developers.
C3_SameRecordTwice ==
  [][(/\ pc = "walk" /\ pending # <<>>
      /\ last.err = "none" /\ last.repo \in repos
      /\ last'.err = "none" /\ last'.repo = last.repo
      /\ last'.contributors = last.contributors)
     => (/\ Nodes(graph') = Nodes(graph)
         /\ graph'.adj = graph.adj
         /\ repos' = repos
         /\ developers' = developers)]_vars

\* the second file of a directory has repeated the record of the first, a
\* repository with two developers
C3_Witness ==
  /\ pc = "walk" /\ pending = <<>>
  /\ last.again
  /\ Cardinality(last.contributors) = 2
  /\ neighbors(graph, last.repo) = last.contributors

\* C5: every tracked developer is a node of the returned graph, and one whose
\* repositories have no other neighbour than itself has no neighbour there.
Sole(d) == \A r \in repos : (has_node(graph, r) /\ d \in neighbors(graph, r))
                              => neighbors(graph, r) = {d}
Extractable(file) ==
  /\ file.kind = "dict"
  /\ \A i \in 1..Len(file.periods) :
       /\ file.periods[i].kind = "list"
       /\ \A j \in 1..Len(file.periods[i].items) :
            file.periods[i].items[j].kind \in {"str", "list", "null"}
C4_ExtractedSetIsUnion ==
  (pc = "called" /\ InferRepo(arg.parts).err = "none" /\ Extractable(arg.file))
    => last.contributors = Members(arg.file)

\* two periods name "y" as a pair and as a bare id, and "x" once
C4_Witness ==
  /\ pc = "called"
  /\ Len(arg.file.periods) = 2
  /\ arg.file.periods[1].items = <<PairEntry("y", 10), StrEntry("x")>>
  /\ arg.file.periods[2].items = <<StrEntry("y")>>
  /\ last.contributors = {"x", "y"}
  /\ developers = {"x", "y"}

\* 0-based positions of the segments equal to x
Positions(parts, x) == {i \in 0..(Len(parts) - 1) : parts[i + 1] = x}
First(parts, x) == CHOOSE i \in Positions(parts, x) : \A j \in Positions(parts, x) : i <= j
TwoAfter(parts, x) == Positions(parts, x) # {} /\ First(parts, x) + 2 <= Len(parts) - 1
NameAfter(parts, x) == FmtRepo(parts[First(parts, x) + 2], parts[First(parts, x) + 3])

\* the name the rules give when a rule that cannot apply is passed over
FallThroughName(parts) ==
  IF TwoAfter(parts, "github") THEN NameAfter(parts, "github")
  ELSE IF TwoAfter(parts, "gitee") THEN NameAfter(parts, "gitee")
  ELSE IF Positions(parts, "developers") # {} /\ First(parts, "developers") >= 2
  THEN FmtRepo(parts[First(parts, "developers") - 1], parts[First(parts, "developers")])
  ELSE IF Len(parts) >= 2 THEN FmtRepo(parts[Len(parts) - 1], parts[Len(parts)])
  ELSE Sentinel

\* C6 as claimed: a "github" segment without two segments after it hands the
\* path to the gitee, developers and final-segments rules.
C6_GithubFallsThrough ==
  (/\ pc = "called" /\ last.err = "none"
   /\ Positions(arg.parts, "github") # {} /\ ~ TwoAfter(arg.parts, "github"))
    => last.repo = FallThroughName(arg.parts)

\* C6: github decides before gitee, gitee before developers, developers
\* before the two final segments; a path with a "github" segment that has no
\* two segments after it gets the sentinel and no later rule is consulted.
C6_PriorityAndSentinel ==
  (pc = "called" /\ last.err # "IndexError") =>
    LET parts == arg.parts
        gh == Positions(parts, "github") # {}
        ge == Positions(parts, "gitee") # {}
        dv == Positions(parts, "developers") # {}
    IN /\ TwoAfter(parts, "github") => last.repo = NameAfter(parts, "github")
       /\ (gh /\ ~ TwoAfter(parts, "github")) => last.repo = Sentinel
       /\ (~ gh /\ TwoAfter(parts, "gitee")) => last.repo = NameAfter(parts, "gitee")
       /\ (~ gh /\ ~ ge /\ dv /\ First(parts, "developers") >= 2)
            => last.repo = FmtRepo(parts[First(parts, "developers") - 1],
                                   parts[First(parts, "developers")])
       /\ (~ gh /\ ~ ge /\ ~ dv /\ Len(parts) >= 2)
            => last.repo = FmtRepo(parts[Len(parts) - 1], parts[Len(parts)])

\* a path where the gitee rule could apply but "github" comes without two
\* segments after it
C6_Witness ==
  /\ pc = "called"
  /\ arg.parts = <<"gitee", "a", "b", "github">>
  /\ WellFormed(arg.file)
  /\ last.repo = Sentinel
  /\ Sentinel \in repos

NoRuleApplies(parts) ==
  /\ ~ TwoAfter(parts, "github")
  /\ ~ TwoAfter(parts, "gitee")
  /\ ~ (Positions(parts, "developers") # {} /\ First(parts, "developers") >= 2)
  /\ Len(parts) < 2

\* C7: whatever the directory path, handling a well-formed file raises
\* nothing and leaves its record in the graph, under the sentinel when the
\* path has too few segments for any rule.
C7_InferenceNeverFails ==
  (pc = "called" /\ WellFormed(arg.file)) =>
    /\ last.err = "none"
    /\ last.repo \in repos
    /\ Members(arg.file) \subseteq neighbors(graph, last.repo)
    /\ NoRuleApplies(arg.parts) => last.repo = Sentinel

\* C8: when load_data returns, the well-formed file it handled last has its
\* record in the graph (every well-formed file of the tree is at one time
\* the one handled last, and nodes and edges are never removed).
C8_WellFormedFilesRecorded ==
  (pc = "idle" /\ last.wf) =>
    /\ last.err = "none"
    /\ last.repo \in repos
    /\ last.contributors \subseteq neighbors(graph, last.repo)

\* C9: a file whose handling raises leaves the graph and the tracked sets
\* as they were before it.
C9_NoPartialRecord ==
  [][(pc = "walk" /\ pending # <<>> /\ pending' # pending /\ last'.err # "none")
     => (graph' = graph /\ developers' = developers /\ repos' = repos)]_vars

\* C10: no node is tracked both as a repository and as a developer, and every
\* edge of the bipartite graph joins a node tagged "repo" and a node tagged
\* "developer".
C10_Bipartite ==
  /\ repos \cap developers = {}
  /\ \A u \in Nodes(graph) : \A v \in neighbors(graph, u) :
       {graph.node[u], graph.node[v]} = {"repo", "developer"}

\* C11: two load_data walks over the same recognized files, whatever the
\* order in which each meets them, end with the same bipartite graph (nodes,
\* type tags, edges) and the same tracked repos and developers.
C11_OrderIndependent ==
  (pc = "order" /\ twin.first = <<>> /\ twin.second = <<>>) =>
    /\ graph = twin.b.graph
    /\ developers = twin.b.developers
    /\ repos = twin.b.repos

\* C12: after any sequence of handled files, files that fail part-way
\* included, the tracked repos and developers together are exactly the nodes
\* of the bipartite graph; so every tracked repository is a node and the
\* projection never skips one (line 116).
C12_TrackedSetsAreNodes ==
  /\ repos \cup developers = Nodes(graph)
  /\ \A repo \in repos : has_node(graph, repo)

\* load_data has returned and the file it handled last failed part-way: its
\* repository and one of its contributors are recorded, None was refused
C12_Witness ==
  /\ pc = "idle"
  /\ lib = "networkx"
  /\ last.err = "ValueError"
  /\ None \in last.contributors
  /\ last.repo \in repos
  /\ last.contributors \cap developers # {}
  /\ ~ has_node(graph, None)

====
